---------------------------- MODULE Spec2Model ----------------------------
(***************************************************************************)
(* BIP21 URI parsing and formatting (crate bip21: src/lib.rs, src/de.rs,   *)
(* src/ser.rs).                                                            *)
(*                                                                         *)
(* Text is modelled as Rust models it: a str is a sequence of bytes        *)
(* (0..255) that is valid UTF-8; lengths and slice indexes count bytes.    *)
(* An Option is a sequence of length 0 (None) or 1 (Some).                 *)
(***************************************************************************)
EXTENDS Integers, Sequences, FiniteSets, TLC

(***************************************************************************)
(* Bounds of the model.                                                    *)
(***************************************************************************)
\* Longest label text a caller assigns before displaying.
MaxLabelLen == 2
\* Most key=value pairs in a raw input's parameter segment.
MaxPairs == 2

(***************************************************************************)
(* Bytes and text.                                                         *)
(***************************************************************************)
\* The printable ASCII characters, in code order from 32 (space) to 126.
AsciiChars ==
    << " ", "!", "DQUOTE", "#", "$", "%", "&", "'", "(", ")", "*", "+", ",", "-", ".", "/",
       "0", "1", "2", "3", "4", "5", "6", "7", "8", "9", ":", ";", "<", "=", ">", "?",
       "@", "A", "B", "C", "D", "E", "F", "G", "H", "I", "J", "K", "L", "M", "N", "O",
       "P", "Q", "R", "S", "T", "U", "V", "W", "X", "Y", "Z", "[", "BACKSLASH", "]", "^", "_",
       "BACKTICK", "a", "b", "c", "d", "e", "f", "g", "h", "i", "j", "k", "l", "m", "n", "o",
       "p", "q", "r", "s", "t", "u", "v", "w", "x", "y", "z", "{", "|", "}", "~" >>

\* The byte of one ASCII character.
Ord(c) == 31 + (CHOOSE i \in 1..Len(AsciiChars) : AsciiChars[i] = c)

\* The bytes of an ASCII literal given character by character.
Str(chars) == [i \in 1..Len(chars) |-> Ord(chars[i])]

\* The bytes the drivers and the codec test for.
EQUALS == Ord("=")
AMPERSAND == Ord("&")
QUESTION == Ord("?")
PERCENT == Ord("%")
DOT == Ord(".")
SPACE == Ord(" ")
DIGIT_0 == Ord("0")
DIGIT_9 == Ord("9")
UPPER_A == Ord("A")
UPPER_F == Ord("F")
UPPER_Z == Ord("Z")
LOWER_A == Ord("a")
LOWER_F == Ord("f")

\* U+00E9 (e with acute accent), two bytes in UTF-8.
EAcute == << 195, 169 >>

RECURSIVE Flatten(_)
Flatten(seqs) == IF seqs = << >> THEN << >> ELSE Head(seqs) \o Flatten(Tail(seqs))

\* u8::to_ascii_lowercase
ToAsciiLower(b) == IF b >= UPPER_A /\ b <= UPPER_Z THEN b + (LOWER_A - UPPER_A) ELSE b

\* str::eq_ignore_ascii_case
EqIgnoreAsciiCase(a, b) ==
    /\ Len(a) = Len(b)
    /\ \A i \in 1..Len(a) : ToAsciiLower(a[i]) = ToAsciiLower(b[i])

\* str::is_char_boundary(index), index counted from 0 in bytes.
IsCharBoundary(s, index) ==
    IF index = 0 THEN TRUE
    ELSE IF index >= Len(s) THEN index = Len(s)
    ELSE ~(s[index + 1] >= 128 /\ s[index + 1] < 192)

\* str::find(char) for an ASCII char: the 0-based byte position as an Option.
Find(s, b) ==
    IF \E i \in 1..Len(s) : s[i] = b
    THEN << (CHOOSE i \in 1..Len(s) : s[i] = b /\ \A j \in 1..(i - 1) : s[j] # b) - 1 >>
    ELSE << >>

\* &s[..pos] and &s[pos..] at char boundaries.
SliceTo(s, pos) == SubSeq(s, 1, pos)
SliceFrom(s, pos) == SubSeq(s, pos + 1, Len(s))

\* str::split(char): always at least one piece; an empty text gives one empty piece.
RECURSIVE Split(_, _)
Split(s, b) ==
    LET at == Find(s, b)
    IN  IF at = << >> THEN << s >>
        ELSE << SliceTo(s, at[1]) >> \o Split(SliceFrom(s, at[1] + 1), b)

\* str::starts_with
StartsWith(s, prefix) ==
    Len(s) >= Len(prefix) /\ SubSeq(s, 1, Len(prefix)) = prefix

\* str::contains(char)
Contains(s, b) == \E i \in 1..Len(s) : s[i] = b

\* core::str::from_utf8 succeeds: one-, two- and three-byte sequences.
RECURSIVE IsUtf8(_)
IsUtf8(bytes) ==
    IF bytes = << >> THEN TRUE
    ELSE LET b == bytes[1]
             cont(i) == Len(bytes) >= i /\ bytes[i] >= 128 /\ bytes[i] < 192
         IN  IF b < 128 THEN IsUtf8(Tail(bytes))
             ELSE IF b >= 194 /\ b < 224 THEN cont(2) /\ IsUtf8(SubSeq(bytes, 3, Len(bytes)))
             ELSE IF b >= 224 /\ b < 240 THEN cont(2) /\ cont(3) /\ IsUtf8(SubSeq(bytes, 4, Len(bytes)))
             ELSE FALSE

(***************************************************************************)
(* The percent codec (crate percent_encoding_rfc3986, as the sources call  *)
(* it) and the escape set of the format driver.                            *)
(***************************************************************************)
\* percent_encoding_rfc3986::CONTROLS: the C0 controls and DEL.
CONTROLS == (0..31) \cup {127}

\* Mutant of ASCII_SET below: the set of the codec, with nothing added.
ASCII_SET_Controls == CONTROLS

\* ASCII_SET: the set of the codec with the characters of the grammar added.
ASCII_SET == CONTROLS \cup {AMPERSAND, QUESTION, SPACE, EQUALS}

HexDigit(n) == IF n < 10 THEN DIGIT_0 + n ELSE UPPER_A + (n - 10)

\* char::to_digit(16), -1 for a byte that is no hexadecimal digit.
HexVal(b) ==
    IF b >= DIGIT_0 /\ b <= DIGIT_9 THEN b - DIGIT_0
    ELSE IF b >= UPPER_A /\ b <= UPPER_F THEN b - UPPER_A + 10
    ELSE IF b >= LOWER_A /\ b <= LOWER_F THEN b - LOWER_A + 10
    ELSE -1

\* percent_encode(bytes, &ASCII_SET) and utf8_percent_encode(text, &ASCII_SET):
\* a byte is escaped when it is not ASCII or is in the set.
PercentEncode(bytes) ==
    Flatten([i \in 1..Len(bytes) |->
        IF bytes[i] >= 128 \/ bytes[i] \in ASCII_SET
        THEN << PERCENT, HexDigit(bytes[i] \div 16), HexDigit(bytes[i] % 16) >>
        ELSE << bytes[i] >>])

\* percent_decode_str(s) is Ok: every % is followed by two hexadecimal digits.
RECURSIVE PercentValid(_)
PercentValid(s) ==
    IF s = << >> THEN TRUE
    ELSE IF s[1] = PERCENT
         THEN /\ Len(s) >= 3
              /\ HexVal(s[2]) >= 0
              /\ HexVal(s[3]) >= 0
              /\ PercentValid(SubSeq(s, 4, Len(s)))
         ELSE PercentValid(Tail(s))

\* The bytes the PercentDecode iterator yields over a validated text.
RECURSIVE PercentDecodeBytes(_)
PercentDecodeBytes(s) ==
    IF s = << >> THEN << >>
    ELSE IF s[1] = PERCENT /\ Len(s) >= 3 /\ HexVal(s[2]) >= 0 /\ HexVal(s[3]) >= 0
         THEN << HexVal(s[2]) * 16 + HexVal(s[3]) >> \o PercentDecodeBytes(SubSeq(s, 4, Len(s)))
         ELSE << s[1] >> \o PercentDecodeBytes(Tail(s))

(***************************************************************************)
(* Param: the lazily decoded parameter value (src/lib.rs).                 *)
(***************************************************************************)
EncodedBorrowed(s) == [repr |-> "EncodedBorrowed", data |-> s, owned |-> FALSE]
UnencodedBytes(bytes, owned) == [repr |-> "UnencodedBytes", data |-> bytes, owned |-> owned]
UnencodedString(text, owned) == [repr |-> "UnencodedString", data |-> text, owned |-> owned]

\* Param::decode: Ok(Param) as << param >>, Err(PercentDecodeError) as << >>.
Param_decode(s) == IF PercentValid(s) THEN << EncodedBorrowed(s) >> ELSE << >>

\* The decoded bytes of a Param in any representation (Param::bytes).
Param_bytes(p) == IF p.repr = "EncodedBorrowed" THEN PercentDecodeBytes(p.data) ELSE p.data

\* TryFrom<Param> for String / Cow<str>: Ok(text) as << text >>, Err(Utf8Error) as << >>.
Param_try_into_text(p) ==
    IF p.repr = "UnencodedString" THEN << p.data >>
    ELSE IF IsUtf8(Param_bytes(p)) THEN << Param_bytes(p) >>
    ELSE << >>

\* Mutant of decode_into_owned below: the encoded text is kept as the bytes.
Param_decode_into_owned_Undecoded(p) ==
    IF p.repr = "UnencodedString" THEN UnencodedString(p.data, TRUE)
    ELSE UnencodedBytes(p.data, TRUE)

\* Param::decode_into_owned
Param_decode_into_owned(p) ==
    IF p.repr = "EncodedBorrowed" THEN UnencodedBytes(PercentDecodeBytes(p.data), TRUE)
    ELSE IF p.repr = "UnencodedString" THEN UnencodedString(p.data, TRUE)
    ELSE UnencodedBytes(p.data, TRUE)

(***************************************************************************)
(* The collaborators: bitcoin::Address and bitcoin::Amount.                *)
(***************************************************************************)
\* The address of the crate's tests.
TestAddress ==
    Str(<< "1", "a", "n", "d", "r", "e", "a", "s", "3", "b", "a", "t", "L", "h", "Q", "a", "2",
           "F", "a", "w", "W", "j", "e", "y", "j", "C", "q", "y", "B", "z", "y", "p", "d" >>)

ValidAddresses == { TestAddress }

\* address.parse(): Ok(address) as << address >>, Err(AddressError) as << >>.
Address_parse(s) == IF s \in ValidAddresses THEN << s >> ELSE << >>

\* Display of an address, in both forms (a base58 address has one form).
Address_display(address, alternate) == address

SatPerBtc == 100000000
BtcDecimals == 8

IsDigit(b) == b >= DIGIT_0 /\ b <= DIGIT_9

RECURSIVE Pow10(_)
Pow10(k) == IF k = 0 THEN 1 ELSE 10 * Pow10(k - 1)

RECURSIVE DecValue(_)
DecValue(ds) ==
    IF ds = << >> THEN 0
    ELSE DecValue(SubSeq(ds, 1, Len(ds) - 1)) * 10 + (ds[Len(ds)] - DIGIT_0)

RECURSIVE DecDigits(_)
DecDigits(n) ==
    IF n < 10 THEN << DIGIT_0 + n >> ELSE DecDigits(n \div 10) \o << DIGIT_0 + (n % 10) >>

\* Amount::from_str_in(value, Denomination::Bitcoin): digits with at most one
\* decimal point and at most eight decimals; Ok(sat) as << sat >>, Err as << >>.
Amount_from_str_in(s) ==
    LET dot == Find(s, DOT)
        whole == IF dot = << >> THEN s ELSE SliceTo(s, dot[1])
        frac == IF dot = << >> THEN << >> ELSE SliceFrom(s, dot[1] + 1)
    IN  IF /\ s # << >>
           /\ \A i \in 1..Len(whole) : IsDigit(whole[i])
           /\ \A i \in 1..Len(frac) : IsDigit(frac[i])
           /\ Len(frac) <= BtcDecimals
        THEN << DecValue(whole) * SatPerBtc + DecValue(frac) * Pow10(BtcDecimals - Len(frac)) >>
        ELSE << >>

\* amount.display_in(Denomination::Bitcoin): always eight decimals.
Amount_display_in(sat) ==
    DecDigits(sat \div SatPerBtc) \o << DOT >>
        \o [i \in 1..BtcDecimals |-> DIGIT_0 + ((sat \div Pow10(BtcDecimals - i)) % 10)]

(***************************************************************************)
(* The extension point.  T is the Extras type parameter of Uri: NoExtras   *)
(* (src/lib.rs), or an implementor of the traits of src/de.rs and          *)
(* src/ser.rs, described by the keys it knows, the keys it rejects with    *)
(* its own error, and whether its finalize accepts.  The payload of a      *)
(* Uri is the sequence of (key, value) pairs the extension holds; a key    *)
(* is given by the chunks its Display writes.                              *)
(***************************************************************************)
NoExtras == [name |-> "NoExtras", known |-> {}, failing |-> {}, finalizeOk |-> TRUE]

Implementor(known, failing, finalizeOk) ==
    [name |-> "Implementor", known |-> known, failing |-> failing, finalizeOk |-> finalizeOk]

\* T::DeserializationState::default()
State_default == [consumed |-> << >>]

\* EmptyState::is_param_known
EmptyState_is_param_known(state, key) == FALSE

\* Mutant of deserialize_temp below: every key is reported as known.
EmptyState_deserialize_temp_Known(state, key, value) == [ret |-> "Known", state |-> state]

\* EmptyState::deserialize_temp
EmptyState_deserialize_temp(state, key, value) == [ret |-> "Unknown", state |-> state]

\* EmptyState::finalize
EmptyState_finalize(state) == [ok |-> TRUE, value |-> << >>]

\* The consume operation of an implementor of DeserializationState.
Implementor_deserialize_temp(T, state, key, value) ==
    IF key \in T.failing THEN [ret |-> "Err", state |-> state]
    ELSE IF key \in T.known
         THEN [ret |-> "Known",
               state |-> [consumed |-> Append(state.consumed,
                                              [key |-> << key >>, value |-> Param_bytes(value)])]]
         ELSE [ret |-> "Unknown", state |-> state]

\* DeserializationState::deserialize_borrowed: the default forwards to deserialize_temp.
deserialize_borrowed(T, state, key, value) ==
    IF T.name = "NoExtras" THEN EmptyState_deserialize_temp(state, key, value)
    ELSE Implementor_deserialize_temp(T, state, key, value)

\* DeserializationState::finalize
finalize(T, state) ==
    IF T.name = "NoExtras" THEN EmptyState_finalize(state)
    ELSE [ok |-> T.finalizeOk, value |-> IF T.finalizeOk THEN state.consumed ELSE << >>]

\* SerializeParams::serialize_params: empty for &NoExtras.
serialize_params(T, extras) == IF T.name = "NoExtras" THEN << >> ELSE extras

(***************************************************************************)
(* Errors (src/de.rs): Error::Uri(UriError(inner)) and Error::Extras.      *)
(* parameter is the text an error carries: the pair of MissingEquals, the  *)
(* key of UnknownRequiredParameter, the parameter name of PercentDecode.   *)
(***************************************************************************)
NoError == [kind |-> "None", inner |-> "None", parameter |-> << >>]
Error_uri(inner, parameter) == [kind |-> "Uri", inner |-> inner, parameter |-> parameter]
Error_extras == [kind |-> "Extras", inner |-> "Extras", parameter |-> << >>]

(***************************************************************************)
(* The parse driver: Uri::deserialize_raw (src/de.rs).                     *)
(***************************************************************************)
SCHEME == Str(<< "b", "i", "t", "c", "o", "i", "n", ":" >>)
AMOUNT == Str(<< "a", "m", "o", "u", "n", "t" >>)
LABEL == Str(<< "l", "a", "b", "e", "l" >>)
MESSAGE == Str(<< "m", "e", "s", "s", "a", "g", "e" >>)
REQ == Str(<< "r", "e", "q", "-" >>)

\* A call the driver makes on the accumulator, as recorded in a run.
Call(op, key, ret) == [op |-> op, key |-> key, ret |-> ret]

\* An early return from the loop with an error.
Fail(st, error) == [st EXCEPT !.error = error]

\* Mutants of the test below: the ParamKind is discarded; the prefix is not tested.
RequiredUnknown_Discarded(is_known, extra_key) == FALSE
RequiredUnknown_AnyKey(is_known, extra_key) == is_known = "Unknown"

\* The test that rejects a pair the extension did not understand.
RequiredUnknown(is_known, extra_key) == is_known = "Unknown" /\ StartsWith(extra_key, REQ)

\* Mutant of the arm below: the value goes to the extension as it is, unvalidated.
ExtraParam_Unvalidated(T, st, key, value) ==
    LET r == deserialize_borrowed(T, st.deserializer, key, EncodedBorrowed(value))
        st1 == [st EXCEPT !.deserializer = r.state,
                          !.calls = Append(@, Call("consume", key, r.ret))]
    IN  IF r.ret = "Err" THEN Fail(st1, Error_extras)
        ELSE IF r.ret = "Unknown" /\ StartsWith(key, REQ)
             THEN Fail(st1, Error_uri("UnknownRequiredParameter", key))
             ELSE st1

\* The arm of any key other than amount, label and message.
ExtraParam(T, st, key, value) ==
    LET decoder == Param_decode(value)
    IN  IF decoder = << >> THEN Fail(st, Error_uri("PercentDecode", key))
        ELSE LET r == deserialize_borrowed(T, st.deserializer, key, decoder[1])
                 st1 == [st EXCEPT !.deserializer = r.state,
                                   !.calls = Append(@, Call("consume", key, r.ret))]
             IN  IF r.ret = "Err" THEN Fail(st1, Error_extras)
                 ELSE IF RequiredUnknown(r.ret, key)
                      THEN Fail(st1, Error_uri("UnknownRequiredParameter", key))
                      ELSE st1

\* Mutant of the match below: every pair goes to the extension, whatever its key.
KeyValue_AllToExtension(T, st, key, value) == ExtraParam(T, st, key, value)

\* Mutant of the match below: a field that is set keeps its first value.
KeyValue_FirstWins(T, st, key, value) ==
    IF key = AMOUNT
    THEN LET parsed_amount == Amount_from_str_in(value)
         IN  IF parsed_amount = << >> THEN Fail(st, Error_uri("Amount", << >>))
             ELSE IF st.amount # << >> THEN st ELSE [st EXCEPT !.amount = parsed_amount]
    ELSE IF key = LABEL
    THEN LET label_decoder == Param_decode(value)
         IN  IF label_decoder = << >> THEN Fail(st, Error_uri("PercentDecode", LABEL))
             ELSE IF st.label # << >> THEN st ELSE [st EXCEPT !.label = label_decoder]
    ELSE IF key = MESSAGE
    THEN LET message_decoder == Param_decode(value)
         IN  IF message_decoder = << >> THEN Fail(st, Error_uri("PercentDecode", MESSAGE))
             ELSE IF st.message # << >> THEN st ELSE [st EXCEPT !.message = message_decoder]
    ELSE ExtraParam(T, st, key, value)

\* The match on the key of one pair.
KeyValue(T, st, key, value) ==
    IF key = AMOUNT
    THEN LET parsed_amount == Amount_from_str_in(value)
         IN  IF parsed_amount = << >> THEN Fail(st, Error_uri("Amount", << >>))
             ELSE [st EXCEPT !.amount = parsed_amount]
    ELSE IF key = LABEL
    THEN LET label_decoder == Param_decode(value)
         IN  IF label_decoder = << >> THEN Fail(st, Error_uri("PercentDecode", LABEL))
             ELSE [st EXCEPT !.label = label_decoder]
    ELSE IF key = MESSAGE
    THEN LET message_decoder == Param_decode(value)
         IN  IF message_decoder = << >> THEN Fail(st, Error_uri("PercentDecode", MESSAGE))
             ELSE [st EXCEPT !.message = message_decoder]
    ELSE ExtraParam(T, st, key, value)

\* Mutant of the loop body below: a piece without = is taken as a key with an empty value.
OneParam_EmptyValue(T, st, param) ==
    LET pos == Find(param, EQUALS)
    IN  IF pos = << >> THEN KeyValue(T, st, param, << >>)
        ELSE KeyValue(T, st, SliceTo(param, pos[1]), SliceFrom(param, pos[1] + 1))

\* The body of the loop for one piece of the parameter segment.
OneParam(T, st, param) ==
    LET pos == Find(param, EQUALS)
    IN  IF pos = << >> THEN Fail(st, Error_uri("MissingEquals", param))
        ELSE KeyValue(T, st, SliceTo(param, pos[1]), SliceFrom(param, pos[1] + 1))

\* Mutant of the loop below: the loop goes on after an error and the last one is kept.
RECURSIVE ForEachParam_KeepGoing(_, _, _)
ForEachParam_KeepGoing(T, st, pieces) ==
    IF pieces = << >> THEN st
    ELSE LET next == OneParam(T, [st EXCEPT !.error = NoError], Head(pieces))
         IN  ForEachParam_KeepGoing(T,
                 IF next.error = NoError THEN [next EXCEPT !.error = st.error] ELSE next,
                 Tail(pieces))

\* for param in params.split('&'), left to right, leaving at the first error.
RECURSIVE ForEachParam(_, _, _)
ForEachParam(T, st, pieces) ==
    IF pieces = << >> \/ st.error # NoError THEN st
    ELSE ForEachParam(T, OneParam(T, st, Head(pieces)), Tail(pieces))

\* What a run of the driver ends with: Ok(Uri), Err(Error) or a panic.
Outcome(tag, error, uri, calls) == [tag |-> tag, error |-> error, uri |-> uri, calls |-> calls]

\* The scheme test: the first bytes of the input against SCHEME.
SchemeMatches(string) == EqIgnoreAsciiCase(SliceTo(string, Len(SCHEME)), SCHEME)

\* The slice string[..SCHEME.len()] panics off a char boundary.
SchemeSlicePanics(string) == ~IsCharBoundary(string, Len(SCHEME))

deserialize_raw(T, string) ==
    IF Len(string) < Len(SCHEME) THEN Outcome("Err", Error_uri("TooShort", << >>), << >>, << >>)
    ELSE IF SchemeSlicePanics(string) THEN Outcome("Panic", NoError, << >>, << >>)
    ELSE IF ~SchemeMatches(string) THEN Outcome("Err", Error_uri("InvalidScheme", << >>), << >>, << >>)
    ELSE
      LET rest == SliceFrom(string, Len(SCHEME))
          pos == Find(rest, QUESTION)
          address_text == IF pos = << >> THEN rest ELSE SliceTo(rest, pos[1])
          params == IF pos = << >> THEN << >> ELSE << SliceFrom(rest, pos[1] + 1) >>
          address == Address_parse(address_text)
      IN  IF address = << >> THEN Outcome("Err", Error_uri("Address", << >>), << >>, << >>)
          ELSE
            LET st0 == [deserializer |-> State_default, amount |-> << >>, label |-> << >>,
                        message |-> << >>, error |-> NoError,
                        calls |-> << Call("default", << >>, "Ok") >>]
                st == IF params = << >> THEN st0
                      ELSE ForEachParam(T, st0, Split(params[1], AMPERSAND))
            IN  IF st.error # NoError THEN Outcome("Err", st.error, << >>, st.calls)
                ELSE
                  LET extras == finalize(T, st.deserializer)
                      calls == Append(st.calls,
                                      Call("finalize", << >>, IF extras.ok THEN "Ok" ELSE "Err"))
                  IN  IF ~extras.ok THEN Outcome("Err", Error_extras, << >>, calls)
                      ELSE Outcome("Ok", NoError,
                                   << [address |-> address[1], amount |-> st.amount,
                                       label |-> st.label, message |-> st.message,
                                       extras |-> extras.value] >>,
                                   calls)

\* Uri::into_static
into_static(uri) ==
    [uri EXCEPT !.label = IF @ = << >> THEN << >> ELSE << Param_decode_into_owned(@[1]) >>,
                !.message = IF @ = << >> THEN << >> ELSE << Param_decode_into_owned(@[1]) >>]

\* FromStr::from_str
from_str(T, s) ==
    LET r == deserialize_raw(T, s)
    IN  [r EXCEPT !.uri = IF @ = << >> THEN << >> ELSE << into_static(@[1]) >>]

\* TryFrom<&str>::try_from
try_from(T, s) == deserialize_raw(T, s)

(***************************************************************************)
(* The format driver: Display for Uri (src/ser.rs).  A writer is the text  *)
(* written so far, the no_params flag, whether the write panicked, and     *)
(* the number of values written.                                           *)
(***************************************************************************)
\* Mutant of write_str below: the text is forwarded unchecked.
EqSignChecker_write_str_Unchecked(w, s) == [w EXCEPT !.out = @ \o s]

\* EqSignChecker::write_str
EqSignChecker_write_str(w, s) ==
    IF Contains(s, EQUALS) THEN [w EXCEPT !.panicked = TRUE]
    ELSE [w EXCEPT !.out = @ \o s]

\* write!(EqSignChecker(writer, &key), "?{}", key): the separator, then the key's chunks.
RECURSIVE WriteChecked(_, _)
WriteChecked(w, chunks) ==
    IF chunks = << >> \/ w.panicked THEN w
    ELSE WriteChecked(EqSignChecker_write_str(w, Head(chunks)), Tail(chunks))

\* Mutant of write_param below: every pair is preceded by &, the first included.
write_param_AlwaysAmpersand(w, key, value) ==
    LET w1 == [WriteChecked(w, << << AMPERSAND >> >> \o key) EXCEPT !.no_params = FALSE]
    IN  IF w1.panicked THEN [w1 EXCEPT !.no_params = w.no_params]
        ELSE [w1 EXCEPT !.out = @ \o << EQUALS >> \o value, !.values = @ + 1]

\* write_param; value is the text already percent-encoded by the caller.
write_param(w, key, value) ==
    LET w1 == IF w.no_params
              THEN [WriteChecked(w, << << QUESTION >> >> \o key) EXCEPT !.no_params = FALSE]
              ELSE WriteChecked(w, << << AMPERSAND >> >> \o key)
    IN  IF w1.panicked THEN [w1 EXCEPT !.no_params = w.no_params]
        ELSE [w1 EXCEPT !.out = @ \o << EQUALS >> \o value, !.values = @ + 1]

\* DisplayParam: a Param shown percent-encoded.
DisplayParam(p) == PercentEncode(Param_bytes(p))

\* DisplayEncoder: a Display shown percent-encoded.
DisplayEncoder(text) == PercentEncode(text)

\* maybe_write_param
maybe_write_param(w, key, value) ==
    IF value = << >> THEN w ELSE write_param(w, << key >>, DisplayParam(value[1]))

\* maybe_display_param
maybe_display_param(w, key, value) ==
    IF value = << >> THEN w ELSE write_param(w, << key >>, DisplayEncoder(value[1]))

\* for (key, value) in self.extras.serialize_params()
RECURSIVE WriteExtras(_, _)
WriteExtras(w, pairs) ==
    IF pairs = << >> \/ w.panicked THEN w
    ELSE WriteExtras(write_param(w, Head(pairs).key, DisplayEncoder(Head(pairs).value)),
                     Tail(pairs))

UPPER_SCHEME == Str(<< "B", "I", "T", "C", "O", "I", "N", ":" >>)

\* The scheme as written: upper case in the alternate form.
SchemeText(alternate) == IF alternate THEN UPPER_SCHEME ELSE SCHEME

\* Display::fmt for Uri
Uri_fmt(T, uri, alternate) ==
    LET w0 == [out |-> SchemeText(alternate) \o Address_display(uri.address, alternate),
               no_params |-> TRUE, panicked |-> FALSE, values |-> 0]
        display_amount == IF uri.amount = << >> THEN << >>
                          ELSE << Amount_display_in(uri.amount[1]) >>
        w1 == maybe_display_param(w0, AMOUNT, display_amount)
        w2 == maybe_write_param(w1, LABEL, uri.label)
        w3 == maybe_write_param(w2, MESSAGE, uri.message)
    IN  WriteExtras(w3, serialize_params(T, uri.extras))

(***************************************************************************)
(* The inputs of the model.                                                *)
(***************************************************************************)
\* The characters label texts are made of: a letter, the characters the
\* grammar reserves, the escape character and a non-ASCII character.
TextChars ==
    { Str(<< "a" >>), Str(<< " " >>), Str(<< "&" >>), Str(<< "?" >>), Str(<< "=" >>),
      Str(<< "%" >>), EAcute }

RECURSIVE Texts(_)
Texts(n) ==
    IF n = 0 THEN { << >> }
    ELSE Texts(n - 1) \cup { t \o c : t \in Texts(n - 1), c \in TextChars }

\* From<&str> for Param
LabelParams == { UnencodedString(t, FALSE) : t \in Texts(MaxLabelLen) }

\* From<String> for Param
MessageParams == { UnencodedString(Str(<< "a", "=", "b" >>), TRUE) }

AmountSamples == { 2030000000 }

KeyX == Str(<< "x" >>)
KeyReqX == Str(<< "r", "e", "q", "-", "x" >>)
KeyE == Str(<< "e" >>)

\* The extension types a caller parses or displays with, besides NoExtras:
\* one that knows x and req-x and rejects e, one that knows nothing and
\* whose finalize rejects.
Knowing == Implementor({ KeyX, KeyReqX }, { KeyE }, TRUE)
Rejecting == Implementor({}, {}, FALSE)
ExtrasTypes == { NoExtras, Knowing, Rejecting }

Pair(key, value) == [key |-> key, value |-> value]

\* Payloads of an implementor: keys in one chunk or several, with and without =.
ExtrasSamples ==
    { << >>,
      << Pair(<< KeyX >>, Str(<< "1" >>)) >>,
      << Pair(<< KeyReqX >>, Str(<< "a", " ", "b" >>)), Pair(<< KeyX >>, Str(<< "%" >>)) >>,
      << Pair(<< KeyX >>, Str(<< "1" >>)), Pair(<< Str(<< "a", "=", "b" >>) >>, Str(<< "v" >>)) >>,
      << Pair(<< Str(<< "a" >>), Str(<< "=", "b" >>) >>, Str(<< "v" >>)) >>,
      << Pair(<< Str(<< "k" >>), Str(<< "&", "y" >>) >>, Str(<< "v" >>)) >> }

\* The pieces raw parameter segments are made of.
PairSamples ==
    { Str(<< "a", "m", "o", "u", "n", "t", "=", "1" >>),
      Str(<< "a", "m", "o", "u", "n", "t", "=", "0", ".", "5" >>),
      Str(<< "a", "m", "o", "u", "n", "t", "=", "x" >>),
      Str(<< "l", "a", "b", "e", "l", "=", "a", "%", "2", "0", "b" >>),
      Str(<< "l", "a", "b", "e", "l", "=", "c" >>),
      Str(<< "l", "a", "b", "e", "l", "=", "%" >>),
      Str(<< "m", "e", "s", "s", "a", "g", "e", "=", "m" >>),
      Str(<< "m", "e", "s", "s", "a", "g", "e", "=", "%", "4", "1" >>),
      Str(<< "m", "e", "s", "s", "a", "g", "e", "=", "%", "z", "z" >>),
      Str(<< "x", "=", "1" >>),
      Str(<< "x", "=", "%", "4" >>),
      Str(<< "r", "e", "q", "-", "x", "=", "1" >>),
      Str(<< "e", "=", "1" >>),
      Str(<< "l", "a", "b", "e", "l" >>),
      << >> }

RECURSIVE PairLists(_)
PairLists(n) ==
    IF n = 0 THEN { << >> }
    ELSE PairLists(n - 1) \cup { Append(ps, p) : ps \in PairLists(n - 1), p \in PairSamples }

RECURSIVE Join(_, _)
Join(pieces, sep) ==
    IF Len(pieces) = 1 THEN pieces[1] ELSE pieces[1] \o sep \o Join(Tail(pieces), sep)

\* No parameter segment, or ? and up to MaxPairs pieces joined by &.
Queries ==
    { IF ps = << >> THEN << >> ELSE Str(<< "?" >>) \o Join(ps, Str(<< "&" >>)) :
        ps \in PairLists(MaxPairs) }

MixedScheme == Str(<< "B", "i", "t", "C", "o", "i", "n", ":" >>)
BadAddress == Str(<< "1", "a", "n", "d", "r", "e", "a", "s" >>)

\* Inputs whose scheme or address decides the run.
SchemeInputs ==
    { << >>,
      Str(<< "b", "i", "t", "c", "o", "i", "n" >>),
      SCHEME,
      SchemeText(TRUE) \o TestAddress,
      Str(<< "b", "i", "t", "c", "o", "i", "n", ";" >>) \o TestAddress,
      Str(<< "l", "i", "t", "e", "c", "o", "i", "n", ":" >>) \o TestAddress,
      Str(<< "b", "i", "t", "c", "o", "i", "n" >>) \o EAcute,
      Str(<< "b", "i", "t", "c", "o", "i" >>) \o EAcute,
      Str(<< "b", "i", "t", "c", "o", "i" >>) \o EAcute \o Str(<< "x" >>),
      EAcute \o Str(<< "i", "t", "c", "o", "i", "n", ":" >>) \o TestAddress,
      SCHEME \o BadAddress,
      SCHEME \o BadAddress \o Str(<< "?", "a", "m", "o", "u", "n", "t", "=", "x" >>),
      SCHEME \o EAcute \o Str(<< "?", "x", "=", "1" >>) }

\* Inputs in which amount, label and message occur more than once, among
\* other pairs.
DuplicateInputs ==
    { SCHEME \o TestAddress \o Str(<< "?" >>) \o Join(ps, Str(<< "&" >>)) :
        ps \in { << Str(<< "a", "m", "o", "u", "n", "t", "=", "1" >>),
                    Str(<< "l", "a", "b", "e", "l", "=", "c" >>),
                    Str(<< "x", "=", "1" >>),
                    Str(<< "a", "m", "o", "u", "n", "t", "=", "0", ".", "5" >>),
                    Str(<< "l", "a", "b", "e", "l", "=", "a", "%", "2", "0", "b" >>) >>,
                 << Str(<< "m", "e", "s", "s", "a", "g", "e", "=", "m" >>),
                    Str(<< "l", "a", "b", "e", "l", "=", "c" >>),
                    Str(<< "m", "e", "s", "s", "a", "g", "e", "=", "%", "4", "1" >>) >>,
                 << Str(<< "l", "a", "b", "e", "l", "=", "a", "%", "2", "0", "b" >>),
                    Str(<< "a", "m", "o", "u", "n", "t", "=", "0", ".", "5" >>),
                    Str(<< "l", "a", "b", "e", "l", "=", "c" >>),
                    Str(<< "r", "e", "q", "-", "x", "=", "1" >>),
                    Str(<< "a", "m", "o", "u", "n", "t", "=", "1" >>) >> } }

\* Inputs whose amount is written with a percent sign.
EscapedAmountInputs ==
    { SCHEME \o TestAddress \o Str(<< "?", "a", "m", "o", "u", "n", "t", "=" >>) \o v :
        v \in { Str(<< "%", "3", "1" >>), Str(<< "1", "%" >>) } }

RawInputs ==
    SchemeInputs \cup DuplicateInputs \cup EscapedAmountInputs
    \cup { p \o TestAddress \o q : p \in { SCHEME, MixedScheme }, q \in Queries }

(***************************************************************************)
(* The state: what one caller of the library holds.                        *)
(***************************************************************************)
VARIABLES
    T,          \* the Extras type parameter of the caller's Uri
    uri,        \* Option: the Uri the caller builds
    alternate,  \* the display mode the caller asks for ({} or {:#})
    shown,      \* Option: the writer after displaying uri
    string,     \* Option: the text the caller parses
    parsed,     \* Option: the outcome of parsing string
    reshown     \* Option: the writer after displaying the parsed Uri

vars == << T, uri, alternate, shown, string, parsed, reshown >>

Init ==
    /\ T = NoExtras
    /\ uri = << >>
    /\ alternate = FALSE
    /\ shown = << >>
    /\ string = << >>
    /\ parsed = << >>
    /\ reshown = << >>

Idle == uri = << >> /\ string = << >>
Building == uri # << >> /\ shown = << >>

\* Uri::new(address), with the default Extras type.
UriNew ==
    /\ Idle
    /\ \E address \in ValidAddresses :
         uri' = << [address |-> address, amount |-> << >>, label |-> << >>,
                    message |-> << >>, extras |-> << >>] >>
    /\ T' = NoExtras
    /\ UNCHANGED << alternate, shown, string, parsed, reshown >>

\* Uri::with_extras(address, extras)
UriWithExtras ==
    /\ Idle
    /\ \E address \in ValidAddresses, extras \in ExtrasSamples :
         uri' = << [address |-> address, amount |-> << >>, label |-> << >>,
                    message |-> << >>, extras |-> extras] >>
    /\ T' = Knowing
    /\ UNCHANGED << alternate, shown, string, parsed, reshown >>

\* The owner assigns the public fields before displaying.
AssignAmount ==
    /\ Building
    /\ uri[1].amount = << >>
    /\ \E amount \in AmountSamples : uri' = << [uri[1] EXCEPT !.amount = << amount >>] >>
    /\ UNCHANGED << T, alternate, shown, string, parsed, reshown >>

AssignLabel ==
    /\ Building
    /\ uri[1].label = << >>
    /\ \E label \in LabelParams : uri' = << [uri[1] EXCEPT !.label = << label >>] >>
    /\ UNCHANGED << T, alternate, shown, string, parsed, reshown >>

AssignMessage ==
    /\ Building
    /\ uri[1].message = << >>
    /\ \E message \in MessageParams : uri' = << [uri[1] EXCEPT !.message = << message >>] >>
    /\ UNCHANGED << T, alternate, shown, string, parsed, reshown >>

\* uri.to_string() or format!("{:#}", uri): the text is kept unless the write panicked.
Display ==
    /\ Building
    /\ \E alt \in BOOLEAN :
         /\ alternate' = alt
         /\ shown' = << Uri_fmt(T, uri[1], alt) >>
    /\ string' = IF shown'[1].panicked THEN << >> ELSE << shown'[1].out >>
    /\ UNCHANGED << T, uri, parsed, reshown >>

\* The caller is handed a text to parse as Uri<'_, T>.
Receive ==
    /\ Idle
    /\ \E type \in ExtrasTypes, text \in RawInputs :
         /\ T' = type
         /\ string' = << text >>
    /\ UNCHANGED << uri, alternate, shown, parsed, reshown >>

\* Uri::try_from(&str)
TryFrom ==
    /\ string # << >>
    /\ parsed = << >>
    /\ parsed' = << try_from(T, string[1]) >>
    /\ UNCHANGED << T, uri, alternate, shown, string, reshown >>

\* str::parse::<Uri>()
FromStr ==
    /\ string # << >>
    /\ parsed = << >>
    /\ parsed' = << from_str(T, string[1]) >>
    /\ UNCHANGED << T, uri, alternate, shown, string, reshown >>

\* Displaying the Uri a parse returned, in the caller's display mode.
DisplayParsed ==
    /\ parsed # << >>
    /\ parsed[1].tag = "Ok"
    /\ reshown = << >>
    /\ reshown' = << Uri_fmt(T, parsed[1].uri[1], alternate) >>
    /\ UNCHANGED << T, uri, alternate, shown, string, parsed >>

Next ==
    \/ UriNew
    \/ UriWithExtras
    \/ AssignAmount
    \/ AssignLabel
    \/ AssignMessage
    \/ Display
    \/ Receive
    \/ TryFrom
    \/ FromStr
    \/ DisplayParsed

Spec == Init /\ [][Next]_vars

(***************************************************************************)
(* Vocabulary of the properties: an input read as the grammar of the URI   *)
(* reads it, without running the driver.                                   *)
(***************************************************************************)
\* The first bytes of the input, as many as the scheme has.
SchemeBytes(s) == SubSeq(s, 1, Len(SCHEME))
AfterScheme(s) == SubSeq(s, Len(SCHEME) + 1, Len(s))

AddressPart(s) ==
    LET pos == Find(AfterScheme(s), QUESTION)
    IN  IF pos = << >> THEN AfterScheme(s) ELSE SliceTo(AfterScheme(s), pos[1])

\* The pieces of the parameter segment; none when the input has no ?.
Pieces(s) ==
    LET pos == Find(AfterScheme(s), QUESTION)
    IN  IF pos = << >> THEN << >>
        ELSE Split(SliceFrom(AfterScheme(s), pos[1] + 1), AMPERSAND)

ValidSchemeAndAddress(s) ==
    /\ Len(s) >= Len(SCHEME)
    /\ EqIgnoreAsciiCase(SchemeBytes(s), SCHEME)
    /\ AddressPart(s) \in ValidAddresses

HasEquals(piece) == Contains(piece, EQUALS)
PieceKey(piece) == SliceTo(piece, Find(piece, EQUALS)[1])
PieceValue(piece) == SliceFrom(piece, Find(piece, EQUALS)[1] + 1)
Reserved == { AMOUNT, LABEL, MESSAGE }

\* What the extension type answers for a key.
Answer(type, key) ==
    IF type.name = "NoExtras" THEN "Unknown"
    ELSE IF key \in type.failing THEN "Err"
    ELSE IF key \in type.known THEN "Known" ELSE "Unknown"

\* A piece that makes a parse fail by itself.
PieceFails(type, piece) ==
    \/ ~HasEquals(piece)
    \/ /\ HasEquals(piece)
       /\ \/ PieceKey(piece) = AMOUNT /\ Amount_from_str_in(PieceValue(piece)) = << >>
          \/ PieceKey(piece) # AMOUNT /\ ~PercentValid(PieceValue(piece))
          \/ /\ PieceKey(piece) \notin Reserved
             /\ \/ Answer(type, PieceKey(piece)) = "Err"
                \/ Answer(type, PieceKey(piece)) = "Unknown" /\ StartsWith(PieceKey(piece), REQ)

\* Nothing before piece i fails: the scheme, the address and the earlier pieces.
NothingFailsBefore(type, s, i) ==
    /\ ValidSchemeAndAddress(s)
    /\ LET pieces == Pieces(s)
       IN  \A j \in 1..(i - 1) : ~PieceFails(type, pieces[j])

CountOf(s, b) == Cardinality({ i \in 1..Len(s) : s[i] = b })

\* The logical text of two optional parameter values is the same.
SameText(a, b) ==
    /\ (a = << >>) <=> (b = << >>)
    /\ a # << >> => /\ Param_try_into_text(a[1]) # << >>
                    /\ Param_try_into_text(a[1]) = Param_try_into_text(b[1])

(***************************************************************************)
(* The properties.                                                         *)
(***************************************************************************)
\* C1: every run of the parse driver ends with a Uri or with a typed error
\* (Error::Uri or Error::Extras); it never panics, whatever the input.
C1_NeverPanics ==
    parsed # << >> =>
        \/ parsed[1].tag = "Ok" /\ parsed[1].uri # << >>
        \/ parsed[1].tag = "Err" /\ parsed[1].error.kind \in { "Uri", "Extras" }

\* C2: a pair whose key begins with req- and for which the consume operation
\* returned Unknown makes the parse fail with UnknownRequiredParameter carrying
\* that key; with NoExtras every input with a valid scheme and address and a
\* req- key fails, and with that error for the first req- pair that nothing
\* failing precedes and whose value decodes.
C2_RequiredRejected ==
    parsed # << >> =>
        LET r == parsed[1]
            s == string[1]
        IN  /\ \A i \in 1..Len(r.calls) :
                   ( /\ r.calls[i].op = "consume"
                     /\ r.calls[i].ret = "Unknown"
                     /\ StartsWith(r.calls[i].key, REQ) )
                   => /\ r.tag = "Err"
                      /\ r.uri = << >>
                      /\ r.error = Error_uri("UnknownRequiredParameter", r.calls[i].key)
            /\ (T = NoExtras /\ ValidSchemeAndAddress(s)) =>
                   \A i \in 1..Len(Pieces(s)) :
                       ( /\ HasEquals(Pieces(s)[i])
                         /\ StartsWith(PieceKey(Pieces(s)[i]), REQ) )
                       => /\ r.tag = "Err"
                          /\ ( /\ NothingFailsBefore(T, s, i)
                               /\ PercentValid(PieceValue(Pieces(s)[i])) )
                             => r.error = Error_uri("UnknownRequiredParameter",
                                                    PieceKey(Pieces(s)[i]))

\* C2 witness: an implementor answered Unknown for req-x after an earlier pair passed.
C2_Witness ==
    /\ parsed # << >>
    /\ T = Rejecting
    /\ Len(parsed[1].calls) = 3
    /\ parsed[1].calls[3] = Call("consume", KeyReqX, "Unknown")
    /\ parsed[1].error = Error_uri("UnknownRequiredParameter", KeyReqX)

\* C3: a Uri built from an address and optional amount, label text and message
\* text, with NoExtras, parses back from its displayed text to the same address,
\* the same amount and the same label and message texts.
C3_DocumentRoundTrip ==
    (uri # << >> /\ T = NoExtras /\ parsed # << >>) =>
        /\ parsed[1].tag = "Ok"
        /\ parsed[1].uri # << >>
        /\ parsed[1].uri[1].address = uri[1].address
        /\ parsed[1].uri[1].amount = uri[1].amount
        /\ SameText(parsed[1].uri[1].label, uri[1].label)
        /\ SameText(parsed[1].uri[1].message, uri[1].message)

\* The text of a parameter value survives DisplayParam then Param::decode.
ParamRoundTrips(p) ==
    LET decoded == Param_decode(DisplayParam(p))
    IN  /\ decoded # << >>
        /\ Param_try_into_text(decoded[1]) = << p.data >>

\* C4: any label or message text, shown with DisplayParam (escape set ASCII_SET)
\* and then percent-decoded and converted to text, gives the original text.
C4_PercentRoundTrip ==
    uri # << >> =>
        /\ uri[1].label # << >> => ParamRoundTrips(uri[1].label[1])
        /\ uri[1].message # << >> => ParamRoundTrips(uri[1].message[1])

\* Every piece has an = and a key that is not reserved and does not begin with req-.
OnlyUnknownOptionalKeys(s) ==
    \A i \in 1..Len(Pieces(s)) :
        /\ HasEquals(Pieces(s)[i])
        /\ PieceKey(Pieces(s)[i]) \notin Reserved
        /\ ~StartsWith(PieceKey(Pieces(s)[i]), REQ)

ParsedWithNothingSet ==
    /\ parsed[1].tag = "Ok"
    /\ parsed[1].uri # << >>
    /\ parsed[1].uri[1].amount = << >>
    /\ parsed[1].uri[1].label = << >>
    /\ parsed[1].uri[1].message = << >>

\* C5 as stated: with NoExtras, an input with a valid scheme and address whose
\* pairs all have an = and keys that are neither reserved nor req- parses,
\* whatever the values, to a Uri without amount, label and message.
C5_AnyValueTolerated ==
    (parsed # << >> /\ T = NoExtras /\ ValidSchemeAndAddress(string[1])
        /\ OnlyUnknownOptionalKeys(string[1]))
    => ParsedWithNothingSet

\* C5 (amended): the same, for inputs whose values are all validly percent-encoded.
C5_EncodedValueTolerated ==
    (parsed # << >> /\ T = NoExtras /\ ValidSchemeAndAddress(string[1])
        /\ OnlyUnknownOptionalKeys(string[1])
        /\ \A i \in 1..Len(Pieces(string[1])) : PercentValid(PieceValue(Pieces(string[1])[i])))
    => ParsedWithNothingSet

\* C5 witness: two unrecognized pairs were ignored.
C5_Witness ==
    /\ parsed # << >>
    /\ T = NoExtras
    /\ ValidSchemeAndAddress(string[1])
    /\ Len(Pieces(string[1])) = 2
    /\ OnlyUnknownOptionalKeys(string[1])
    /\ Len(parsed[1].calls) = 4
    /\ ParsedWithNothingSet

\* C6: a piece of the parameter segment without = (an empty piece included),
\* with nothing failing before it, makes the parse fail with MissingEquals
\* carrying the whole piece.
C6_MissingEquals ==
    parsed # << >> =>
        \A i \in 1..Len(Pieces(string[1])) :
            (NothingFailsBefore(T, string[1], i) /\ ~HasEquals(Pieces(string[1])[i]))
            => /\ parsed[1].tag = "Err"
               /\ parsed[1].uri = << >>
               /\ parsed[1].error = Error_uri("MissingEquals", Pieces(string[1])[i])

\* C6 witness: the empty piece after a trailing & was reported, after a good pair.
C6_Witness ==
    /\ parsed # << >>
    /\ Len(Pieces(string[1])) = 2
    /\ NothingFailsBefore(T, string[1], 2)
    /\ Pieces(string[1])[2] = << >>
    /\ parsed[1].error = Error_uri("MissingEquals", << >>)

\* C7: an input of at least eight bytes whose first eight bytes are bitcoin: in
\* any letter case passes the scheme test and parses as the same input with
\* the scheme in lower case does; one whose first eight bytes differ is
\* rejected with InvalidScheme.
C7_SchemeCase ==
    (parsed # << >> /\ Len(string[1]) >= Len(SCHEME)) =>
        IF EqIgnoreAsciiCase(SchemeBytes(string[1]), SCHEME)
        THEN /\ parsed[1].tag # "Panic"
             /\ parsed[1].error.inner \notin { "TooShort", "InvalidScheme" }
             /\ parsed[1] \in { try_from(T, SCHEME \o AfterScheme(string[1])),
                                from_str(T, SCHEME \o AfterScheme(string[1])) }
        ELSE /\ parsed[1].tag = "Err"
             /\ parsed[1].error = Error_uri("InvalidScheme", << >>)

\* C8: the displayed text s of a Uri with NoExtras, in the normal form, parses,
\* and the parsed Uri displays as s again; a Uri of an address alone has no ?.
C8_TextFixedPoint ==
    (uri # << >> /\ T = NoExtras /\ shown # << >> /\ ~alternate) =>
        /\ parsed # << >> => parsed[1].tag = "Ok"
        /\ reshown # << >> => reshown[1].out = shown[1].out
        /\ (uri[1].amount = << >> /\ uri[1].label = << >> /\ uri[1].message = << >>)
              => shown[1].out = SCHEME \o uri[1].address

\* The text a key's Display writes.
KeyText(pair) == Flatten(pair.key)

\* What a display of the Uri u ended with: panicked exactly when a key holds
\* an =, and as many = in the text as values written.
KeysChecked(u, w) ==
    LET pairs == serialize_params(T, u.extras)
        bad == \E i \in 1..Len(pairs) : Contains(KeyText(pairs[i]), EQUALS)
    IN  /\ w.panicked <=> bad
        /\ CountOf(w.out, EQUALS) = w.values

\* C9: displaying a Uri panics when the extension yields a key whose text holds
\* an =, no = of a key is written, and a Uri whose keys hold no = never panics.
C9_KeyWithEquals ==
    /\ shown # << >> => KeysChecked(uri[1], shown[1])
    /\ reshown # << >> => KeysChecked(parsed[1].uri[1], reshown[1])

\* C9 witness: the write panicked at the second pair, after the first was written.
C9_Witness ==
    /\ shown # << >>
    /\ shown[1].panicked
    /\ shown[1].values >= 1
    /\ Len(uri[1].extras) = 2

\* C10: with NoExtras every consume call returns Unknown, finalize succeeds with
\* the empty value, no key is known, nothing is serialized, and a parse never
\* returns an extension error.
C10_EmptyExtension ==
    /\ \A extras \in ExtrasSamples : serialize_params(NoExtras, extras) = << >>
    /\ (parsed # << >> /\ T = NoExtras) =>
          LET r == parsed[1]
          IN  /\ r.error.kind # "Extras"
              /\ r.tag = "Err" => r.error.kind = "Uri"
              /\ \A i \in 1..Len(r.calls) :
                    /\ r.calls[i].op = "consume" =>
                          /\ r.calls[i].ret = "Unknown"
                          /\ ~EmptyState_is_param_known(State_default, r.calls[i].key)
                    /\ r.calls[i].op = "finalize" => r.calls[i].ret = "Ok"
              /\ r.tag = "Ok" => r.uri[1].extras = << >>
              /\ ( /\ ValidSchemeAndAddress(string[1])
                   /\ \A i \in 1..Len(Pieces(string[1])) : ~PieceFails(T, Pieces(string[1])[i]) )
                 => r.tag = "Ok"

\* C10 witness: a parse with NoExtras consumed two pairs and returned a Uri.
C10_Witness ==
    /\ parsed # << >>
    /\ T = NoExtras
    /\ parsed[1].tag = "Ok"
    /\ Len(parsed[1].calls) = 4
    /\ parsed[1].calls[2].op = "consume"
    /\ parsed[1].calls[3].op = "consume"

\* The parameters a display of u has to write, in the order amount, label,
\* message, extension pairs: each with the text of its key and its rendered value.
EmittedPairs(type, u) ==
    LET pairs == serialize_params(type, u.extras)
    IN  (IF u.amount = << >> THEN << >>
         ELSE << Pair(AMOUNT, PercentEncode(Amount_display_in(u.amount[1]))) >>)
        \o (IF u.label = << >> THEN << >>
            ELSE << Pair(LABEL, PercentEncode(Param_bytes(u.label[1]))) >>)
        \o (IF u.message = << >> THEN << >>
            ELSE << Pair(MESSAGE, PercentEncode(Param_bytes(u.message[1]))) >>)
        \o [i \in 1..Len(pairs) |-> Pair(KeyText(pairs[i]), PercentEncode(pairs[i].value))]

\* The text of those parameters: ? before the first, & before each later one.
ExpectedText(type, u, alt) ==
    LET ps == EmittedPairs(type, u)
    IN  SchemeText(alt) \o u.address
        \o Flatten([i \in 1..Len(ps) |->
                      (IF i = 1 THEN << QUESTION >> ELSE << AMPERSAND >>)
                      \o ps[i].key \o << EQUALS >> \o ps[i].value])

\* A display of u wrote the scheme and address, then the present parameters in
\* order with their separators; a display that panicked wrote a prefix of that.
WrittenInOrder(u, w, alt) ==
    LET ps == EmittedPairs(T, u)
        expected == ExpectedText(T, u, alt)
    IN  /\ StartsWith(w.out, SchemeText(alt) \o u.address)
        /\ StartsWith(expected, w.out)
        /\ ~w.panicked =>
              /\ w.out = expected
              /\ w.values = Len(ps)
              /\ Contains(w.out, QUESTION) <=> Len(ps) >= 1
              /\ Len(ps) >= 1 => w.out[Len(SCHEME) + Len(u.address) + 1] = QUESTION
              /\ Len(ps) = 0 => w.out = SchemeText(alt) \o u.address

\* C11: a display writes the scheme and the address, then amount, label and
\* message when present, in that order, then the extension pairs in the order of
\* the extension; an absent field writes nothing; the first parameter written
\* follows a ?, each later one a &, and the text holds a ? exactly when a
\* parameter was written.
C11_OrderAndSeparators ==
    /\ shown # << >> => WrittenInOrder(uri[1], shown[1], alternate)
    /\ reshown # << >> => WrittenInOrder(parsed[1].uri[1], reshown[1], alternate)

\* C11 witness: amount, message and two extension pairs were written, the label
\* being absent.
C11_Witness ==
    /\ shown # << >>
    /\ ~shown[1].panicked
    /\ uri[1].amount # << >>
    /\ uri[1].label = << >>
    /\ uri[1].message # << >>
    /\ Len(serialize_params(T, uri[1].extras)) = 2
    /\ shown[1].values = 4

\* The characters the grammar of the parameter segment gives a meaning to.
Delimiters == { AMPERSAND, QUESTION, SPACE, EQUALS }

\* The escape of a byte: % and two hexadecimal digits.
Escape(b) == << PERCENT, HexDigit(b \div 16), HexDigit(b % 16) >>

\* The number of places of s where t occurs.
CountSub(s, t) ==
    Cardinality({ i \in 1..(Len(s) - Len(t) + 1) : SubSeq(s, i, i + Len(t) - 1) = t })

\* The values a display of u renders: the logical bytes and the rendering of each.
RenderedValues(type, u) ==
    LET pairs == serialize_params(type, u.extras)
    IN  { [logical |-> Amount_display_in(a), rendered |-> DisplayEncoder(Amount_display_in(a))] :
            a \in { u.amount[i] : i \in 1..Len(u.amount) } }
        \cup { [logical |-> Param_bytes(p), rendered |-> DisplayParam(p)] :
                 p \in { u.label[i] : i \in 1..Len(u.label) }
                        \cup { u.message[i] : i \in 1..Len(u.message) } }
        \cup { [logical |-> pairs[i].value, rendered |-> DisplayEncoder(pairs[i].value)] :
                 i \in 1..Len(pairs) }

\* No delimiter is written raw in a value: each one of the logical value is
\* there as its escape; and in the text of a display whose keys hold no
\* delimiter, the only delimiters are those write_param puts around the pairs.
ValuesEscaped(u, w) ==
    LET pairs == serialize_params(T, u.extras)
        plain == \A i \in 1..Len(pairs) : \A d \in Delimiters : ~Contains(KeyText(pairs[i]), d)
    IN  /\ \A v \in RenderedValues(T, u) :
              \A d \in Delimiters :
                  /\ ~Contains(v.rendered, d)
                  /\ CountSub(v.rendered, Escape(d)) >= CountOf(v.logical, d)
        /\ plain =>
              /\ ~w.panicked
              /\ CountOf(w.out, EQUALS) = w.values
              /\ CountOf(w.out, QUESTION) = (IF w.values = 0 THEN 0 ELSE 1)
              /\ CountOf(w.out, AMPERSAND) = (IF w.values = 0 THEN 0 ELSE w.values - 1)
              /\ CountOf(w.out, SPACE) = 0

\* C12: in the text of every display, the value of amount, label, message and of
\* every extension pair, in any representation of Param, holds no raw &, ?,
\* space or =: each of these characters of the logical value is written as its
\* percent escape.
C12_ValuesEscaped ==
    /\ shown # << >> => ValuesEscaped(uri[1], shown[1])
    /\ reshown # << >> => ValuesEscaped(parsed[1].uri[1], reshown[1])

\* A value of this representation holding a delimiter has been displayed.
DelimiterShown(p, repr) ==
    /\ p # << >>
    /\ p[1].repr = repr
    /\ \E d \in Delimiters : Contains(Param_bytes(p[1]), d)

\* C12 witness: a label with a delimiter was displayed as built (decoded text),
\* or as parsed (encoded-borrowed), or as parsed and detached (decoded bytes),
\* the last of these here; the extension value "a b" is covered by C11's display.
C12_Witness ==
    /\ reshown # << >>
    /\ DelimiterShown(parsed[1].uri[1].label, "UnencodedBytes")
    /\ CountSub(reshown[1].out, Escape(SPACE)) = 1

\* C12 witness, continued: the same for the two other representations.
C12_WitnessBorrowed ==
    /\ reshown # << >>
    /\ DelimiterShown(parsed[1].uri[1].label, "EncodedBorrowed")

C12_WitnessText ==
    /\ shown # << >>
    /\ DelimiterShown(uri[1].label, "UnencodedString")
    /\ DelimiterShown(uri[1].message, "UnencodedString")
    /\ \E i \in 1..Len(uri[1].extras) : Contains(uri[1].extras[i].value, SPACE)

\* The error a piece fails with by itself.
PieceError(type, piece) ==
    IF ~HasEquals(piece) THEN Error_uri("MissingEquals", piece)
    ELSE IF PieceKey(piece) = AMOUNT THEN Error_uri("Amount", << >>)
    ELSE IF ~PercentValid(PieceValue(piece)) THEN Error_uri("PercentDecode", PieceKey(piece))
    ELSE IF Answer(type, PieceKey(piece)) = "Err" THEN Error_extras
    ELSE Error_uri("UnknownRequiredParameter", PieceKey(piece))

\* The pieces that fail by themselves, by position.
FailingAmong(type, pieces) == { i \in 1..Len(pieces) : PieceFails(type, pieces[i]) }
FailingPieces(type, s) == FailingAmong(type, Pieces(s))

\* The least position of a non-empty set of positions.
FirstOf(positions) == CHOOSE i \in positions : \A j \in positions : i <= j

\* The error of the first step that fails, the steps taken in the order length,
\* scheme, address, pieces from the left, finalize; NoError when none fails.
FirstFailure(type, s) ==
    IF Len(s) < Len(SCHEME) THEN Error_uri("TooShort", << >>)
    ELSE IF ~EqIgnoreAsciiCase(SchemeBytes(s), SCHEME) THEN Error_uri("InvalidScheme", << >>)
    ELSE IF AddressPart(s) \notin ValidAddresses THEN Error_uri("Address", << >>)
    ELSE LET pieces == Pieces(s)
             failing == FailingAmong(type, pieces)
         IN  IF failing # {} THEN PieceError(type, pieces[FirstOf(failing)])
             ELSE IF ~type.finalizeOk THEN Error_extras
             ELSE NoError

\* C13: the driver checks the length, then the scheme, then the address, then
\* the pairs from the left: the error a parse returns is the error of the first
\* of these steps that fails, and a parse in which a step fails returns no Uri;
\* a run that returns nothing panicked at the scheme step, after the length step.
C13_FirstFailure ==
    parsed # << >> =>
        LET r == parsed[1]
            first == FirstFailure(T, string[1])
        IN  /\ r.tag = "Err" => r.error = first /\ r.uri = << >>
            /\ first # NoError => r.tag # "Ok" /\ r.uri = << >>
            /\ r.tag = "Ok" => first = NoError
            /\ r.tag = "Panic" => /\ Len(string[1]) >= Len(SCHEME)
                                  /\ first = Error_uri("InvalidScheme", << >>)

\* C13 witness: both pairs fail by themselves, the first with the error of the
\* extension and the second for its missing =, and the first one's error came back.
C13_Witness ==
    /\ parsed # << >>
    /\ ValidSchemeAndAddress(string[1])
    /\ FailingPieces(T, string[1]) = { 1, 2 }
    /\ PieceError(T, Pieces(string[1])[1]) = Error_extras
    /\ PieceError(T, Pieces(string[1])[2]).inner = "MissingEquals"
    /\ parsed[1].tag = "Err"
    /\ parsed[1].error = Error_extras

\* C13 witness, continued: a wrong scheme before a bad address, and a bad
\* address before a bad pair.
C13_WitnessScheme ==
    /\ parsed # << >>
    /\ Len(string[1]) >= Len(SCHEME)
    /\ ~EqIgnoreAsciiCase(SchemeBytes(string[1]), SCHEME)
    /\ AddressPart(string[1]) \notin ValidAddresses
    /\ parsed[1].error = Error_uri("InvalidScheme", << >>)

C13_WitnessAddress ==
    /\ parsed # << >>
    /\ AddressPart(string[1]) \notin ValidAddresses
    /\ FailingPieces(T, string[1]) = { 1 }
    /\ parsed[1].error = Error_uri("Address", << >>)

\* A piece with a key that is not amount, label or message.
IsExtensionPiece(piece) == HasEquals(piece) /\ PieceKey(piece) \notin Reserved

\* Such a piece whose value is validly percent-encoded.
IsConsumedPiece(piece) == IsExtensionPiece(piece) /\ PercentValid(PieceValue(piece))

\* The consume calls for these pieces, in their order, with the answers of the type.
ConsumeCalls(type, pieces) ==
    [i \in 1..Len(pieces) |->
        Call("consume", PieceKey(pieces[i]), Answer(type, PieceKey(pieces[i])))]

FinalizeCall(type) == Call("finalize", << >>, IF type.finalizeOk THEN "Ok" ELSE "Err")

\* The pieces the loop reaches: all of them, or those up to the first that fails.
ReachedPieces(pieces, failing) ==
    IF failing = {} THEN pieces ELSE SubSeq(pieces, 1, FirstOf(failing))

\* C14 as stated: in a run that creates the accumulator, it starts as the default
\* of the type, consume is called once for each pair with a key other than
\* amount, label and message, from the left, and finalize is called once, last.
C14_Lifecycle ==
    (parsed # << >> /\ parsed[1].calls # << >>) =>
        parsed[1].calls = << Call("default", << >>, "Ok") >>
                          \o ConsumeCalls(T, SelectSeq(Pieces(string[1]), IsExtensionPiece))
                          \o << FinalizeCall(T) >>

\* C14 (amended): in a run that creates the accumulator, it starts as the default
\* of the type and consume is called once, from the left, for each pair that is
\* reached with a key other than amount, label and message and a validly
\* encoded value; when no pair fails, finalize is called once, last; when a pair
\* fails, no later pair is consumed and finalize is not called.  What finalize
\* returns is what the consume calls put into the default state, in their order.
C14_LifecycleUntilFailure ==
    parsed # << >> =>
        LET r == parsed[1]
            s == string[1]
            pieces == Pieces(s)
            failing == FailingAmong(T, pieces)
            consumed == SelectSeq(ReachedPieces(pieces, failing), IsConsumedPiece)
            known == SelectSeq(ConsumeCalls(T, consumed), LAMBDA c : c.ret = "Known")
        IN  /\ r.calls # << >> <=> ValidSchemeAndAddress(s) /\ r.tag # "Panic"
            /\ r.calls # << >> =>
                  /\ r.calls = << Call("default", << >>, "Ok") >>
                               \o ConsumeCalls(T, consumed)
                               \o (IF failing = {} THEN << FinalizeCall(T) >> ELSE << >>)
                  /\ \A i \in 1..Len(r.calls) :
                        /\ r.calls[i].op = "consume" => r.calls[i].key \notin Reserved
                        /\ r.calls[i].op = "finalize" => i = Len(r.calls)
                  /\ (r.tag = "Ok" /\ T.name # "NoExtras") =>
                        /\ Len(r.uri[1].extras) = Len(known)
                        /\ \A i \in 1..Len(known) : r.uri[1].extras[i].key = << known[i].key >>

\* C14 witness: x and req-x were consumed in this order, then finalize was called.
C14_Witness ==
    /\ parsed # << >>
    /\ parsed[1].calls = << Call("default", << >>, "Ok"), Call("consume", KeyX, "Known"),
                            Call("consume", KeyReqX, "Known"), Call("finalize", << >>, "Ok") >>
    /\ Len(parsed[1].uri[1].extras) = 2

\* C14 witness, continued: a run that stopped at its second pair, after one
\* consume call and without finalize; and a reserved pair passed over.
C14_WitnessAborted ==
    /\ parsed # << >>
    /\ FailingPieces(T, string[1]) = { 2 }
    /\ parsed[1].calls = << Call("default", << >>, "Ok"), Call("consume", KeyX, "Known") >>

C14_WitnessReserved ==
    /\ parsed # << >>
    /\ Len(Pieces(string[1])) = 2
    /\ HasEquals(Pieces(string[1])[1])
    /\ PieceKey(Pieces(string[1])[1]) = LABEL
    /\ parsed[1].calls = << Call("default", << >>, "Ok"), Call("consume", KeyX, "Unknown"),
                            Call("finalize", << >>, "Ok") >>

\* The value of the last piece with this key, as an Option.
LastValue(pieces, key) ==
    LET at == { i \in 1..Len(pieces) : HasEquals(pieces[i]) /\ PieceKey(pieces[i]) = key }
    IN  IF at = {} THEN << >>
        ELSE << PieceValue(pieces[CHOOSE i \in at : \A j \in at : j <= i]) >>

\* A label or message field holds the decoded bytes of this value, or nothing.
HoldsValue(field, value) ==
    /\ (field = << >>) <=> (value = << >>)
    /\ field # << >> => Param_bytes(field[1]) = PercentDecodeBytes(value[1])

\* The payload an implementor ends with: the pairs it knows, in their order.
KnownPairs(type, pieces) ==
    LET known == SelectSeq(pieces,
                     LAMBDA p : IsExtensionPiece(p) /\ Answer(type, PieceKey(p)) = "Known")
    IN  [i \in 1..Len(known) |->
            [key |-> << PieceKey(known[i]) >>, value |-> PercentDecodeBytes(PieceValue(known[i]))]]

\* C15: in a Uri a parse returned, amount, label and message each hold the value
\* of the last pair with that key, or nothing when there is none; so a pair of
\* one of these keys changes neither the two other fields nor the payload of
\* the extension, which is made of the extension pairs alone.
C15_LastWriteWins ==
    (parsed # << >> /\ parsed[1].tag = "Ok") =>
        LET u == parsed[1].uri[1]
            pieces == Pieces(string[1])
            amount == LastValue(pieces, AMOUNT)
        IN  /\ u.amount = (IF amount = << >> THEN << >> ELSE Amount_from_str_in(amount[1]))
            /\ HoldsValue(u.label, LastValue(pieces, LABEL))
            /\ HoldsValue(u.message, LastValue(pieces, MESSAGE))
            /\ u.extras = (IF T.name = "NoExtras" THEN << >> ELSE KnownPairs(T, pieces))

\* The number of pieces with this key.
Occurrences(pieces, key) ==
    Cardinality({ i \in 1..Len(pieces) : HasEquals(pieces[i]) /\ PieceKey(pieces[i]) = key })

\* C15 witness: amount=1, label=c, x=1, amount=0.5, label=a%20b was parsed: the
\* second amount and the second label are held, and x is in the payload.
C15_Witness ==
    /\ parsed # << >>
    /\ parsed[1].tag = "Ok"
    /\ T = Knowing
    /\ Occurrences(Pieces(string[1]), AMOUNT) = 2
    /\ Occurrences(Pieces(string[1]), LABEL) = 2
    /\ parsed[1].uri[1].amount = << SatPerBtc \div 2 >>
    /\ Param_bytes(parsed[1].uri[1].label[1]) = Str(<< "a", " ", "b" >>)
    /\ Len(parsed[1].uri[1].extras) = 1

(***************************************************************************)
(* Detaching: Uri::into_static applied to a Uri whose label and message    *)
(* are in any representation of Param, by itself and as the last step of  *)
(* FromStr.  The state is the Uri (uri), the Uri into_static returned      *)
(* (parsed, as FromStr returns it) and what the two display as.            *)
(***************************************************************************)
\* Values in the three representations, borrowed and owned: with an escape,
\* with a character of two bytes, with bytes that are no text, and empty.
ParamSamples ==
    { EncodedBorrowed(t) : t \in { Str(<< "a", "%", "2", "0", "b" >>),
                                   Str(<< "%", "C", "3", "%", "A", "9" >>),
                                   Str(<< "%", "F", "F" >>),
                                   << >> } }
    \cup { UnencodedBytes(b, o) : b \in { Str(<< "a", " ", "b" >>), << 255 >>, << >> },
                                  o \in BOOLEAN }
    \cup { UnencodedString(t, o) : t \in { Str(<< "a", "=", "b" >>), EAcute }, o \in BOOLEAN }

OptionalParams == { << >> } \cup { << p >> : p \in ParamSamples }

\* A Uri whose label and message are in any representation.
DetachInit ==
    /\ T = Knowing
    /\ uri \in { << [address |-> TestAddress, amount |-> amount, label |-> label,
                       message |-> message, extras |-> extras] >> :
                    amount \in { << >> } \cup { << a >> : a \in AmountSamples },
                    label \in OptionalParams,
                    message \in OptionalParams,
                    extras \in { << >>, << Pair(<< KeyX >>, Str(<< "1" >>)) >> } }
    /\ alternate = FALSE
    /\ shown = << >>
    /\ string = << >>
    /\ parsed = << >>
    /\ reshown = << >>

\* The caller holds such a Uri, or nothing yet.
InitDetach == Init \/ DetachInit

\* Uri::into_static by itself: the last step of FromStr::from_str.
IntoStatic ==
    /\ uri # << >>
    /\ parsed = << >>
    /\ parsed' = << Outcome("Ok", NoError, << into_static(uri[1]) >>, << >>) >>
    /\ UNCHANGED << T, uri, alternate, shown, string, reshown >>

NextDetach ==
    \/ IntoStatic
    \/ Display
    \/ Receive
    \/ FromStr
    \/ DisplayParsed

SpecDetach == InitDetach /\ [][NextDetach]_vars

\* q is p detached: the same decoded bytes and the same text, decoded and owned,
\* and detaching q again gives q.
Detached(p, q) ==
    /\ Param_bytes(q) = Param_bytes(p)
    /\ Param_try_into_text(q) = Param_try_into_text(p)
    /\ q.repr # "EncodedBorrowed"
    /\ q.owned
    /\ Param_decode_into_owned(q) = q

\* The field g is the field f detached: absent when f is, else its value detached.
DetachedField(f, g) ==
    /\ (g = << >>) <=> (f = << >>)
    /\ f # << >> => Detached(f[1], g[1])

\* v is u with label and message detached and nothing else changed.
DetachedUri(u, v) ==
    /\ DetachedField(u.label, v.label)
    /\ DetachedField(u.message, v.message)
    /\ v.address = u.address
    /\ v.amount = u.amount
    /\ v.extras = u.extras
    /\ into_static(v) = v

\* C16: decode_into_owned of a value in any representation gives a value with
\* the same decoded bytes that is decoded and owned, and gives that value
\* again when applied to it; into_static applies it to label and message when
\* present and leaves address, amount and extras as they are, so the Uri
\* displays as before; and from_str returns what try_from returns for the same
\* text, with the Uri detached.
C16_DetachPreserves ==
    parsed # << >> =>
        IF parsed[1].tag = "Ok" /\ parsed[1].calls = << >>
        THEN /\ DetachedUri(uri[1], parsed[1].uri[1])
             /\ \A alt \in BOOLEAN :
                   Uri_fmt(T, parsed[1].uri[1], alt) = Uri_fmt(T, uri[1], alt)
             /\ reshown # << >> => reshown[1] \in { Uri_fmt(T, uri[1], alt) : alt \in BOOLEAN }
        ELSE LET raw == try_from(T, string[1])
             IN  /\ parsed[1].tag = raw.tag
                 /\ parsed[1].error = raw.error
                 /\ parsed[1].calls = raw.calls
                 /\ raw.tag # "Ok" => parsed[1].uri = << >>
                 /\ raw.tag = "Ok" => DetachedUri(raw.uri[1], parsed[1].uri[1])

\* C16 witness: a Uri with an encoded-borrowed label holding an escape and a
\* borrowed message of decoded bytes was detached and then displayed.
C16_Witness ==
    /\ parsed # << >>
    /\ reshown # << >>
    /\ uri[1].label = << EncodedBorrowed(Str(<< "a", "%", "2", "0", "b" >>)) >>
    /\ uri[1].message = << UnencodedBytes(<< 255 >>, FALSE) >>
    /\ parsed[1].uri[1].label = << UnencodedBytes(Str(<< "a", " ", "b" >>), TRUE) >>
    /\ parsed[1].uri[1].message = << UnencodedBytes(<< 255 >>, TRUE) >>
    /\ uri[1].extras # << >>

\* C16 witness, continued: from_str detached the label and the message of a
\* text; a borrowed decoded text was detached.
C16_WitnessFromStr ==
    /\ parsed # << >>
    /\ parsed[1].tag = "Ok"
    /\ parsed[1].calls # << >>
    /\ parsed[1].uri[1].label = << UnencodedBytes(Str(<< "a", " ", "b" >>), TRUE) >>
    /\ parsed[1].uri[1].message = << UnencodedBytes(Str(<< "A" >>), TRUE) >>

C16_WitnessText ==
    /\ parsed # << >>
    /\ uri[1].label = << UnencodedString(EAcute, FALSE) >>
    /\ parsed[1].uri[1].label = << UnencodedString(EAcute, TRUE) >>

\* A piece with a value that is not validly percent-encoded, under a key other
\* than amount.
BadEncoding(piece) ==
    /\ HasEquals(piece)
    /\ PieceKey(piece) # AMOUNT
    /\ ~PercentValid(PieceValue(piece))

\* Piece i is such a piece, and nothing before it fails.
BadEncodingAt(type, s, i) == NothingFailsBefore(type, s, i) /\ BadEncoding(Pieces(s)[i])

\* An amount pair whose value holds a percent sign.
EscapedAmount(piece) ==
    /\ HasEquals(piece)
    /\ PieceKey(piece) = AMOUNT
    /\ Contains(PieceValue(piece), PERCENT)

\* C17: a label, message or extension pair whose value is not validly
\* percent-encoded, with nothing failing before it (it is then the first piece
\* that fails), makes the parse fail with PercentDecode naming label, message or
\* the key of the pair; consume is not called for that pair; and the value of
\* an amount pair is not percent-decoded: an amount written with a % is an
\* amount error, whatever the escape.
C17_PercentDecodeNamed ==
    parsed # << >> =>
        LET r == parsed[1]
            s == string[1]
            pieces == Pieces(s)
            failing == FailingAmong(T, pieces)
            reached == ValidSchemeAndAddress(s) /\ failing # {}
            first == pieces[FirstOf(failing)]
        IN  /\ (reached /\ BadEncoding(first)) =>
                  /\ r.tag = "Err"
                  /\ r.uri = << >>
                  /\ r.error = Error_uri("PercentDecode", PieceKey(first))
                  /\ r.calls = << Call("default", << >>, "Ok") >>
                               \o ConsumeCalls(T, SelectSeq(SubSeq(pieces, 1, FirstOf(failing) - 1),
                                                            IsExtensionPiece))
            /\ (reached /\ EscapedAmount(first)) => r.error = Error_uri("Amount", << >>)
            /\ r.error.inner = "PercentDecode" =>
                  /\ r.error.parameter # AMOUNT
                  /\ reached
                  /\ BadEncoding(first)

\* C17 witness: x=1 was consumed, then x=%4 failed with PercentDecode naming x
\* and was not consumed.
C17_Witness ==
    /\ parsed # << >>
    /\ Len(Pieces(string[1])) = 2
    /\ BadEncodingAt(T, string[1], 2)
    /\ parsed[1].error = Error_uri("PercentDecode", KeyX)
    /\ parsed[1].calls = << Call("default", << >>, "Ok"), Call("consume", KeyX, "Known") >>

\* C17 witness, continued: label and message were named; amount=%31 was an
\* amount error.
C17_WitnessLabel ==
    /\ parsed # << >>
    /\ Len(Pieces(string[1])) = 2
    /\ BadEncodingAt(T, string[1], 2)
    /\ parsed[1].error = Error_uri("PercentDecode", LABEL)

C17_WitnessMessage ==
    /\ parsed # << >>
    /\ Len(Pieces(string[1])) = 2
    /\ BadEncodingAt(T, string[1], 1)
    /\ parsed[1].error = Error_uri("PercentDecode", MESSAGE)

C17_WitnessAmount ==
    /\ parsed # << >>
    /\ string[1] \in EscapedAmountInputs
    /\ PercentValid(PieceValue(Pieces(string[1])[1]))
    /\ parsed[1].error = Error_uri("Amount", << >>)

\* The text a display of u wrote splits back, at the first ?, then at each &,
\* then at the first = of each piece, into the pairs the display emitted.
Resplits(u, w) ==
    LET pieces == Pieces(w.out)
        emitted == EmittedPairs(T, u)
    IN  /\ Len(pieces) = Len(emitted)
        /\ \A i \in 1..Len(pieces) :
              /\ HasEquals(pieces[i])
              /\ PieceKey(pieces[i]) = emitted[i].key
              /\ PieceValue(pieces[i]) = emitted[i].value

\* No key of the extension of u holds an =.
KeysWithoutEquals(u) ==
    \A i \in 1..Len(serialize_params(T, u.extras)) :
        ~Contains(KeyText(serialize_params(T, u.extras)[i]), EQUALS)

\* C18: the displayed text of a Uri whose extension keys hold no =, taken after
\* its first ? and split at & and then at the first = of each piece, gives the
\* pairs the display emitted: one piece for each, with its key, in their order.
C18_ResplitsToEmitted ==
    /\ (shown # << >> /\ KeysWithoutEquals(uri[1])) => Resplits(uri[1], shown[1])
    /\ (reshown # << >> /\ KeysWithoutEquals(parsed[1].uri[1]))
          => Resplits(parsed[1].uri[1], reshown[1])

=============================================================================
